---- MODULE Spec2Model ----
(***************************************************************************)
(* Submission grading pipeline of the Math-Tutor backend.                  *)
(*                                                                         *)
(*   routes/submissions/grading.py   grade_submission, get_results         *)
(*   routes/submissions/upload.py    submit_solution                       *)
(*   services/grading_service.py     check_relevance,                      *)
(*                                   extract_solution_structure,           *)
(*                                   verify_answer_correctness,            *)
(*                                   verify_solution_logical_flow          *)
(*   services/tutor_service.py       generate_diagnostic_feedback          *)
(*                                                                         *)
(* Scores and confidences are floats in [0,1] in the program; here they    *)
(* are integers in hundredths (0.8 is 80).  Percentages are 0..100.        *)
(* Texts are abstracted to the classes the code distinguishes.             *)
(***************************************************************************)
EXTENDS Integers, Sequences, FiniteSets, TLC

VARIABLES
    problem_submissions, \* table problem_submissions: [sid, pid] -> row or NoRow
    test_status,         \* table test_submissions: sid -> status or NoRow
    grading_results,     \* table grading_results (committed): set of rows
    next_result_id,      \* sequence grading_results_result_id_seq
    tx,                  \* open transaction of grade_submission: its view of the tables
    pc,                  \* position of the running grade_submission
    req,                 \* arguments of the running grade_submission
    before,              \* the tables as the last grade_submission found them
    todo,                \* rows fetched by the SELECT and not yet processed
    cur,                 \* locals of the loop body for the current row
    response,            \* what the last request returned to its caller
    stub,                \* answers the external capabilities gave per (sid, pid)
    deterministic,       \* capabilities answer the same input the same way
    sc_in, sc_out,       \* score composition applied to one input
    va_in, va_out,       \* one call of verify_answer_correctness
    lf_in, lf_out,       \* one call of verify_solution_logical_flow
    results_read,        \* what the last get_results returned to its caller
    pm_in, pm_out        \* the proof-keyword heuristic applied to one problem text

vars == <<problem_submissions, test_status, grading_results, next_result_id,
          tx, pc, req, before, todo, cur, response, stub, deterministic,
          sc_in, sc_out, va_in, va_out, lf_in, lf_out, results_read, pm_in, pm_out>>

dbVars   == <<problem_submissions, test_status, grading_results, next_result_id>>
runVars  == <<tx, pc, req, before, todo, cur, response, stub, deterministic>>
pureVars == <<sc_in, sc_out, va_in, va_out, lf_in, lf_out, results_read, pm_in, pm_out>>

(***************************************************************************)
(* Bounds of the model.                                                    *)
(***************************************************************************)
MaxResultId   == 4     \* result ids the sequence hands out in a run of Spec
MaxAnswerLen  == 2     \* length of the answer strings given to the verifier

Submissions == {1, 2}  \* submission ids in use
Problems    == {1, 2, 3}  \* problem ids of omni_math_data

None      == "None"    \* Python None / SQL NULL, where the value is a text
NoProblem == 0         \* problem_id absent from the request (None, or the falsy 0)

(***************************************************************************)
(* Score composition: the waterfall of grade_submission.                   *)
(***************************************************************************)
Scale == 100           \* hundredths

ProofFull     == 80
ProofPartial  == 50
ProofWeak     == 30
CorrectFull   == 70
CorrectShaky  == 40
WrongGreat    == 80
WrongSome     == 40

WaterfallScore_Strict(is_proof, answer_correct, logic_score) ==
    IF is_proof THEN
        IF logic_score > ProofFull THEN [percentage |-> 100, answer_correct |-> TRUE]
        ELSE IF logic_score > ProofPartial THEN [percentage |-> 75, answer_correct |-> TRUE]
        ELSE IF logic_score > ProofWeak THEN [percentage |-> 40, answer_correct |-> FALSE]
        ELSE [percentage |-> 0, answer_correct |-> FALSE]
    ELSE IF answer_correct THEN
        IF logic_score > CorrectFull THEN [percentage |-> 100, answer_correct |-> TRUE]
        ELSE IF logic_score > CorrectShaky THEN [percentage |-> 80, answer_correct |-> TRUE]
        ELSE [percentage |-> 40, answer_correct |-> TRUE]
    ELSE
        IF logic_score > WrongGreat THEN [percentage |-> 60, answer_correct |-> FALSE]
        ELSE IF logic_score > WrongSome THEN [percentage |-> 30, answer_correct |-> FALSE]
        ELSE [percentage |-> 0, answer_correct |-> FALSE]

WaterfallScore_KeepsVerdict(is_proof, answer_correct, logic_score) ==
    IF is_proof THEN
        IF logic_score >= ProofFull THEN [percentage |-> 100, answer_correct |-> answer_correct]
        ELSE IF logic_score >= ProofPartial
        THEN [percentage |-> 75, answer_correct |-> answer_correct]
        ELSE IF logic_score >= ProofWeak
        THEN [percentage |-> 40, answer_correct |-> answer_correct]
        ELSE [percentage |-> 0, answer_correct |-> answer_correct]
    ELSE IF answer_correct THEN
        IF logic_score >= CorrectFull THEN [percentage |-> 100, answer_correct |-> TRUE]
        ELSE IF logic_score >= CorrectShaky THEN [percentage |-> 80, answer_correct |-> TRUE]
        ELSE [percentage |-> 40, answer_correct |-> TRUE]
    ELSE
        IF logic_score >= WrongGreat THEN [percentage |-> 60, answer_correct |-> FALSE]
        ELSE IF logic_score >= WrongSome THEN [percentage |-> 30, answer_correct |-> FALSE]
        ELSE [percentage |-> 0, answer_correct |-> FALSE]

\* grading.py 145-184: percentage and the (possibly overridden) answer_correct
WaterfallScore(is_proof, answer_correct, logic_score) ==
    IF is_proof THEN
        IF logic_score >= ProofFull THEN [percentage |-> 100, answer_correct |-> TRUE]
        ELSE IF logic_score >= ProofPartial THEN [percentage |-> 75, answer_correct |-> TRUE]
        ELSE IF logic_score >= ProofWeak THEN [percentage |-> 40, answer_correct |-> FALSE]
        ELSE [percentage |-> 0, answer_correct |-> FALSE]
    ELSE IF answer_correct THEN
        IF logic_score >= CorrectFull THEN [percentage |-> 100, answer_correct |-> TRUE]
        ELSE IF logic_score >= CorrectShaky THEN [percentage |-> 80, answer_correct |-> TRUE]
        ELSE [percentage |-> 40, answer_correct |-> TRUE]
    ELSE
        IF logic_score >= WrongGreat THEN [percentage |-> 60, answer_correct |-> FALSE]
        ELSE IF logic_score >= WrongSome THEN [percentage |-> 30, answer_correct |-> FALSE]
        ELSE [percentage |-> 0, answer_correct |-> FALSE]

FinalScore_Undivided(percentage) == percentage * Scale

\* grading.py 186: final_score = percentage / 100.0, kept in hundredths
FinalScore(percentage) == (percentage * Scale) \div 100

(***************************************************************************)
(* Texts.  An OCR text is one of four classes; an answer is a string of    *)
(* characters.                                                             *)
(*   "empty"  ""            "blank"  whitespace only                       *)
(*   "short"  fewer than 10 characters once stripped, not blank            *)
(*   "long"   at least 10 characters once stripped                         *)
(***************************************************************************)
TextKinds == {"empty", "blank", "short", "long"}

Falsy(t)     == t \in {None, "empty"}                    \* not t
Blank(t)     == t \in {None, "empty", "blank"}           \* not t or not t.strip()
TooShort(t)  == t \in {None, "empty", "blank", "short"}  \* not t or len(t.strip()) < 10
PyOr(a, b)   == IF Falsy(a) THEN b ELSE a                \* a or b

EmptyStr == << >>
ShortStr == <<"5">>                                      \* the text of class "short"
TextAsAnswer(t) ==                                       \* a text used as an answer string
    CASE t = "short" -> ShortStr
      [] t = "blank" -> <<" ">>
      [] t = "long"  -> <<"5", " ">>
      [] OTHER       -> EmptyStr

\* "\n".join(steps), as a text class
JoinSteps(steps) ==
    IF steps = << >> THEN "empty"
    ELSE IF \E i \in 1..Len(steps) : steps[i] = "long" THEN "long"
    ELSE IF \E i \in 1..Len(steps) : steps[i] = "short" THEN "short"
    ELSE IF Len(steps) > 1 THEN "blank"
    ELSE steps[1]

(***************************************************************************)
(* omni_math_data: the reference problems (read only).  Problem 1 is a     *)
(* calculation, the text of problem 2 holds the keyword "prove", problem 3 *)
(* is a row whose problem text is empty (grade_submission reads it as      *)
(* problem_text or "").                                                    *)
(***************************************************************************)
OmniMath(p) ==
    IF p = 1
    THEN [answer |-> <<"5">>, solution |-> "long", problem |-> "calculate"]
    ELSE IF p = 2
    THEN [answer |-> <<"-", "5">>, solution |-> "long", problem |-> "prove"]
    ELSE [answer |-> <<"5">>, solution |-> "long", problem |-> "empty"]

\* A problem text is a sequence of pieces: words or parts of words in some
\* spelling, and the blank between two words.
Pieces == {"prove", "Prove", "PROVE", "show", "Show", "that", "THAT", " ",
           "demonstrate", "Demonstrate", "dis", "find"}

\* omni_math_data.problem of the three reference problems (None is read as "")
ProblemText(problem) ==
    IF problem = "calculate" THEN <<"find">>
    ELSE IF problem = "prove" THEN <<"Prove", " ", "that">>
    ELSE << >>

lower_Identity(text) == text

\* grading.py 121: problem_text.lower()
lower(text) ==
    [i \in DOMAIN text |->
        CASE text[i] \in {"Prove", "PROVE"} -> "prove"
          [] text[i] = "Show" -> "show"
          [] text[i] = "THAT" -> "that"
          [] text[i] = "Demonstrate" -> "demonstrate"
          [] OTHER -> text[i]]

\* grading.py 122: k in lower_prob, a substring test
Contains(k, text) ==
    \E i \in 1..Len(text) :
        i + Len(k) - 1 <= Len(text) /\ SubSeq(text, i, i + Len(k) - 1) = k

\* grading.py 120-123: any(k in lower_prob for k in ["prove", "show that", "demonstrate"])
ProofKeywords == {<<"prove">>, <<"show", " ", "that">>, <<"demonstrate">>}
HasProofKeyword(lower_prob) == \E k \in ProofKeywords : Contains(k, lower_prob)

(***************************************************************************)
(* Replies of the external capabilities.  ok = FALSE: the call raised.     *)
(***************************************************************************)
Failure == [ok |-> FALSE]

RelevanceReplies ==
    {Failure} \cup {[ok |-> TRUE, is_relevant |-> b] : b \in BOOLEAN}

ExtractReplies ==
    {Failure,
     [ok |-> TRUE, is_proof |-> TRUE,  student_answer |-> <<"q">>, student_steps |-> <<"long">>],
     [ok |-> TRUE, is_proof |-> FALSE, student_answer |-> <<"5">>, student_steps |-> <<"long">>],
     [ok |-> TRUE, is_proof |-> FALSE, student_answer |-> EmptyStr, student_steps |-> << >>]}

AnswerReplies ==
    {Failure,
     [ok |-> TRUE, is_correct |-> TRUE,  confidence |-> 90],
     [ok |-> TRUE, is_correct |-> FALSE, confidence |-> 20]}

LogicScores == {0, 30, 50, 80}
LogicReplies ==
    {Failure} \cup
    {[ok |-> TRUE, logical_score |-> x,
      step_count |-> 2, valid_steps |-> IF x >= 80 THEN 2 ELSE 1,
      first_error_step_index |-> IF x >= 80 THEN -1 ELSE 1,
      error_summary |-> "llm"] : x \in LogicScores}

FeedbackReplies ==
    {Failure, [ok |-> TRUE, text |-> "feedback"], [ok |-> TRUE, text |-> "empty"]}

(***************************************************************************)
(* services/grading_service.py                                             *)
(***************************************************************************)
check_relevance_FailClosed(student_text, reply) ==
    IF Blank(student_text)
    THEN [is_relevant |-> FALSE, reason |-> "Empty submission", called |-> FALSE]
    ELSE IF ~reply.ok
    THEN [is_relevant |-> FALSE, reason |-> "Relevance check error", called |-> TRUE]
    ELSE [is_relevant |-> reply.is_relevant, reason |-> "llm", called |-> TRUE]

check_relevance_NoEmptyCheck(student_text, reply) ==
    IF ~reply.ok
    THEN [is_relevant |-> TRUE, reason |-> "Relevance check error", called |-> TRUE]
    ELSE [is_relevant |-> reply.is_relevant, reason |-> "llm", called |-> TRUE]

\* grading_service.py 19-65
check_relevance(student_text, reply) ==
    IF Blank(student_text)
    THEN [is_relevant |-> FALSE, reason |-> "Empty submission", called |-> FALSE]
    ELSE IF ~reply.ok
    THEN [is_relevant |-> TRUE, reason |-> "Relevance check error", called |-> TRUE]
    ELSE [is_relevant |-> reply.is_relevant, reason |-> "llm", called |-> TRUE]

extract_solution_structure_DropsText(ocr_text, reply) ==
    IF TooShort(ocr_text)
    THEN [student_answer |-> TextAsAnswer(ocr_text), student_steps |-> << >>,
          is_proof |-> FALSE, called |-> FALSE, fallback |-> FALSE]
    ELSE IF ~reply.ok
    THEN [student_answer |-> EmptyStr, student_steps |-> << >>,
          is_proof |-> FALSE, called |-> TRUE, fallback |-> TRUE]
    ELSE [student_answer |-> reply.student_answer, student_steps |-> reply.student_steps,
          is_proof |-> reply.is_proof, called |-> TRUE, fallback |-> FALSE]

extract_solution_structure_FallbackKeepsAnswer(ocr_text, reply) ==
    IF TooShort(ocr_text)
    THEN [student_answer |-> TextAsAnswer(ocr_text), student_steps |-> << >>,
          is_proof |-> FALSE, called |-> FALSE, fallback |-> FALSE]
    ELSE IF ~reply.ok
    THEN [student_answer |-> TextAsAnswer(ocr_text), student_steps |-> <<ocr_text>>,
          is_proof |-> FALSE, called |-> TRUE, fallback |-> TRUE]
    ELSE [student_answer |-> reply.student_answer, student_steps |-> reply.student_steps,
          is_proof |-> reply.is_proof, called |-> TRUE, fallback |-> FALSE]

\* grading_service.py 68-118
extract_solution_structure(ocr_text, reply) ==
    IF TooShort(ocr_text)
    THEN [student_answer |-> TextAsAnswer(ocr_text), student_steps |-> << >>,
          is_proof |-> FALSE, called |-> FALSE, fallback |-> FALSE]
    ELSE IF ~reply.ok
    THEN [student_answer |-> EmptyStr, student_steps |-> <<ocr_text>>,
          is_proof |-> FALSE, called |-> TRUE, fallback |-> TRUE]
    ELSE [student_answer |-> reply.student_answer, student_steps |-> reply.student_steps,
          is_proof |-> reply.is_proof, called |-> TRUE, fallback |-> FALSE]

Raised == [raised |-> TRUE, called |-> TRUE]

verify_answer_correctness(student_answer, correct_answer, reply) ==
    IF student_answer = EmptyStr \/ correct_answer = EmptyStr
    THEN [raised |-> FALSE, is_correct |-> FALSE, confidence |-> 0,
          match_type |-> "openai", called |-> FALSE]
    ELSE IF ~reply.ok
    THEN Raised
    ELSE [raised |-> FALSE, is_correct |-> reply.is_correct, confidence |-> reply.confidence,
          match_type |-> "openai", called |-> TRUE]

verify_solution_logical_flow_CallsOnEmpty(student_solution, reply) ==
    IF ~reply.ok
    THEN Raised
    ELSE [raised |-> FALSE, logical_score |-> reply.logical_score,
          step_count |-> reply.step_count, valid_steps |-> reply.valid_steps,
          first_error_step_index |->
              IF reply.first_error_step_index < 0 THEN 0 ELSE reply.first_error_step_index,
          error_summary |->
              IF reply.first_error_step_index < 0 THEN None ELSE reply.error_summary,
          called |-> TRUE]

\* grading_service.py 182-270
verify_solution_logical_flow(student_solution, reply) ==
    IF Blank(student_solution)
    THEN [raised |-> FALSE, logical_score |-> 0, step_count |-> 0, valid_steps |-> 0,
          first_error_step_index |-> 0,
          error_summary |-> "No solution steps found", called |-> FALSE]
    ELSE IF ~reply.ok
    THEN Raised
    ELSE [raised |-> FALSE, logical_score |-> reply.logical_score,
          step_count |-> reply.step_count, valid_steps |-> reply.valid_steps,
          first_error_step_index |->
              IF reply.first_error_step_index < 0 THEN 0 ELSE reply.first_error_step_index,
          error_summary |->
              IF reply.first_error_step_index < 0 THEN None ELSE reply.error_summary,
          called |-> TRUE]

(***************************************************************************)
(* backend/services/grading_service.py: the earlier revision of the        *)
(* Answer Verifier, with the exact-match fast path and, when the           *)
(* equivalence call fails, a fallback on embedding similarity.             *)
(***************************************************************************)
Space == " "
Chars == {"5", Space, "-", "U+2212"}
Mojibake == <<"U+00E2", "U+02C6", "U+2019">>   \* the three characters replace() looks for

RECURSIVE StripLeft(_)
StripLeft(t) == IF t # << >> /\ Head(t) = Space THEN StripLeft(Tail(t)) ELSE t

RECURSIVE StripRight(_)
StripRight(t) ==
    IF t # << >> /\ t[Len(t)] = Space THEN StripRight(SubSeq(t, 1, Len(t) - 1)) ELSE t

RECURSIVE ReplaceSeq(_, _, _)
ReplaceSeq(t, old, new) ==
    IF Len(t) < Len(old) THEN t
    ELSE IF SubSeq(t, 1, Len(old)) = old
    THEN new \o ReplaceSeq(SubSeq(t, Len(old) + 1, Len(t)), old, new)
    ELSE <<Head(t)>> \o ReplaceSeq(Tail(t), old, new)

IsSpace(c) == c = Space
NotSpace(c) == ~IsSpace(c)

\* backend/services/grading_service.py 22-30
normalize_answer_text(text) ==
    IF text = EmptyStr THEN EmptyStr
    ELSE ReplaceSeq(SelectSeq(StripRight(StripLeft(text)), NotSpace), Mojibake, <<"-">>)

SimilarityReplies == {Failure, [ok |-> TRUE, sim |-> 50], [ok |-> TRUE, sim |-> 90]}

HighConfidence == 85

\* backend/services/grading_service.py 33-106
legacy_verify_answer_correctness(student_answer, correct_answer, reply, similarity) ==
    IF student_answer = EmptyStr \/ correct_answer = EmptyStr
    THEN [raised |-> FALSE, is_correct |-> FALSE, confidence |-> 0,
          match_type |-> "openai", called |-> FALSE]
    ELSE IF /\ normalize_answer_text(student_answer) # EmptyStr
            /\ normalize_answer_text(student_answer) = normalize_answer_text(correct_answer)
    THEN [raised |-> FALSE, is_correct |-> TRUE, confidence |-> 100,
          match_type |-> "exact", called |-> FALSE]
    ELSE IF reply.ok
    THEN [raised |-> FALSE,
          is_correct |-> reply.is_correct \/ reply.confidence >= HighConfidence,
          confidence |-> reply.confidence, match_type |-> "openai", called |-> TRUE]
    ELSE IF similarity.ok
    THEN [raised |-> FALSE, is_correct |-> similarity.sim >= HighConfidence,
          confidence |-> similarity.sim, match_type |-> "semantic_fallback",
          called |-> TRUE]
    ELSE Raised

\* backend/services/grading_service.py 197-234: what the embedding-based method
\* finds when the evaluation call has failed
FlowFallbacks ==
    {Failure,
     [ok |-> TRUE, step_count |-> 0, valid_steps |-> 0, first_error |-> -1],
     [ok |-> TRUE, step_count |-> 2, valid_steps |-> 2, first_error |-> -1],
     [ok |-> TRUE, step_count |-> 2, valid_steps |-> 1, first_error |-> 1],
     [ok |-> TRUE, step_count |-> 2, valid_steps |-> 0, first_error |-> 0]}

\* backend/services/grading_service.py 117-234
legacy_verify_solution_logical_flow(student_solution, reply, fallback) ==
    IF Blank(student_solution)
    THEN [raised |-> FALSE, logical_score |-> 0, step_count |-> 0, valid_steps |-> 0,
          first_error_step_index |-> 0,
          error_summary |-> "No solution steps found", called |-> FALSE]
    ELSE IF reply.ok
    THEN [raised |-> FALSE, logical_score |-> reply.logical_score,
          step_count |-> reply.step_count, valid_steps |-> reply.valid_steps,
          first_error_step_index |->
              IF reply.first_error_step_index < 0 THEN 0 ELSE reply.first_error_step_index,
          error_summary |->
              IF reply.first_error_step_index < 0 THEN None ELSE reply.error_summary,
          called |-> TRUE]
    ELSE IF ~fallback.ok
    THEN Raised
    ELSE IF fallback.step_count = 0
    THEN [raised |-> FALSE, logical_score |-> 0, step_count |-> 0, valid_steps |-> 0,
          first_error_step_index |-> 0,
          error_summary |-> "No solution steps found", called |-> TRUE]
    ELSE [raised |-> FALSE,
          logical_score |-> (fallback.valid_steps * Scale) \div fallback.step_count,
          step_count |-> fallback.step_count, valid_steps |-> fallback.valid_steps,
          first_error_step_index |->
              IF fallback.first_error < 0 THEN 0 ELSE fallback.first_error,
          error_summary |->
              IF fallback.first_error < 0 THEN None ELSE "deviates from reference",
          called |-> TRUE]

(***************************************************************************)
(* services/tutor_service.py                                               *)
(***************************************************************************)
\* not query or not query.strip(), an answer string as the query
BlankAnswer(answer) == \A i \in 1..Len(answer) : answer[i] = " "

\* tutor_service.py 60-62: query = problem or student_solution or student_answer
BlankQuery(problem, student_solution, student_answer) ==
    IF ~Falsy(problem) THEN Blank(problem)
    ELSE IF ~Falsy(student_solution) THEN Blank(student_solution)
    ELSE BlankAnswer(student_answer)

generate_diagnostic_feedback_SilentOnFailure(problem, student_solution, student_answer, reply) ==
    IF BlankQuery(problem, student_solution, student_answer)
    THEN None
    ELSE IF ~reply.ok THEN None
    ELSE IF reply.text = "empty" THEN "could not generate detailed feedback"
    ELSE reply.text

\* tutor_service.py 42-178
generate_diagnostic_feedback(problem, student_solution, student_answer, reply) ==
    IF BlankQuery(problem, student_solution, student_answer)
    THEN None
    ELSE IF ~reply.ok THEN "Error generating feedback"
    ELSE IF reply.text = "empty" THEN "could not generate detailed feedback"
    ELSE reply.text

(***************************************************************************)
(* Tables.                                                                 *)
(*   problem_submissions  unique on (submission_id, problem_id), the       *)
(*                        ON CONFLICT target of submit_solution            *)
(*   test_submissions     one row per submission id, with its status       *)
(*   grading_results      rows keyed by the serial result_id               *)
(* Every problem id of problem_submissions has its omni_math_data row, so  *)
(* the JOIN of grade_submission drops nothing.                             *)
(***************************************************************************)
NoSubmission == [present |-> FALSE, ocr_text |-> None, student_solution |-> None,
                 student_answer |-> EmptyStr]

NoStatus == "no row"

IdleTx == [open |-> FALSE, results |-> {}, status |-> [s \in Submissions |-> NoStatus]]

NoRelevance == [is_relevant |-> FALSE, reason |-> None, called |-> FALSE]
NoAnswer == [is_correct |-> FALSE, confidence |-> 0, match_type |-> None,
             called |-> FALSE, failed |-> FALSE]
NoLogic == [logical_score |-> 0, first_error_step_index |-> 0, error_summary |-> None,
            called |-> FALSE, failed |-> FALSE]

NoCur == [problem_id |-> NoProblem, relevance |-> NoRelevance,
          structured_answer |-> EmptyStr, structured_steps |-> None,
          is_proof |-> FALSE, extracted |-> FALSE, fallback |-> FALSE,
          ar |-> NoAnswer, sr |-> NoLogic,
          answer_correct |-> FALSE, percentage |-> 0, final_score |-> 0,
          hint_provided |-> None, feedback_called |-> FALSE, feedback_is_correct |-> FALSE]

NoRequest == [sid |-> 0, problem_id |-> NoProblem, first_id |-> 0,
              verifier_failed |-> FALSE, repeated |-> FALSE]

NoBefore == [results |-> {}, status |-> [s \in Submissions |-> NoStatus]]
Tables == [results |-> grading_results, status |-> test_status]

NoResponse == [op |-> "none", status |-> "none", sid |-> 0, problem_id |-> NoProblem,
               first_id |-> 0, verifier_failed |-> FALSE]

Unset == [ok |-> FALSE, unset |-> TRUE]
NoStub == [rel |-> Unset, ext |-> Unset, ans |-> Unset, logic |-> Unset, fb |-> Unset]

ResultsOf(results, s) == {r \in results : r.submission_id = s}
RowsOfProblem(results, s, p) == {r \in results : r.submission_id = s /\ r.problem_id = p}
ProblemsOf(results, s) == {r.problem_id : r \in ResultsOf(results, s)}
SubmittedProblems(s) == {p \in Problems : problem_submissions[s, p].present}

(***************************************************************************)
(* submit_solution (upload.py).  text is the combined OCR text of the      *)
(* uploaded pages, extracted the result of extract_answer_from_text.       *)
(***************************************************************************)
ExtractedAnswers(text) == IF Blank(text) THEN {EmptyStr} ELSE {EmptyStr, <<"5">>}

\* upload.py 191-213: INSERT ... ON CONFLICT (submission_id, problem_id) DO UPDATE
UpsertProblemSubmission(old, text, extracted) ==
    [present |-> TRUE, ocr_text |-> text, student_solution |-> text,
     student_answer |-> IF extracted = EmptyStr THEN old.student_answer ELSE extracted]

\* upload.py 120-128: INSERT ... ON CONFLICT (test_id, student_id) DO UPDATE SET status
UpsertStatus(status, s) == [status EXCEPT ![s] = "processing"]

submit_solution_ClearsResults(s, p, text, extracted) ==
    /\ pc = "idle"
    /\ test_status' = UpsertStatus(test_status, s)
    /\ problem_submissions' =
          [problem_submissions EXCEPT
              ![s, p] = UpsertProblemSubmission(@, text, extracted)]
    /\ grading_results' = {r \in grading_results : r.submission_id # s}
    /\ stub' = [stub EXCEPT ![s, p] = NoStub]
    /\ response' = [NoResponse EXCEPT !.op = "submit_solution", !.status = "ok"]
    /\ before' = NoBefore
    /\ UNCHANGED <<next_result_id, tx, pc, req, todo, cur, deterministic>>
    /\ UNCHANGED pureVars

\* upload.py 76-229
submit_solution(s, p, text, extracted) ==
    /\ pc = "idle"
    /\ test_status' = UpsertStatus(test_status, s)
    /\ problem_submissions' =
          [problem_submissions EXCEPT
              ![s, p] = UpsertProblemSubmission(@, text, extracted)]
    /\ stub' = [stub EXCEPT ![s, p] = NoStub]
    /\ response' = [NoResponse EXCEPT !.op = "submit_solution", !.status = "ok"]
    /\ before' = NoBefore
    /\ UNCHANGED <<grading_results, next_result_id, tx, pc, req, todo, cur, deterministic>>
    /\ UNCHANGED pureVars

(***************************************************************************)
(* grade_submission (grading.py), one step per statement group.            *)
(***************************************************************************)
SelectRows_AnyProblem(s, problem_id) == SubmittedProblems(s)

\* grading.py 29-54: the two SELECTs
SelectRows(s, problem_id) ==
    IF problem_id # NoProblem
    THEN {p \in SubmittedProblems(s) : p = problem_id}
    ELSE SubmittedProblems(s)

DeleteResults_OnlySelected(results, s, selected) ==
    {r \in results : ~(r.submission_id = s /\ r.problem_id \in selected)}

DeleteResults_Skipped(results, s, selected) == results

DeleteResults_EverySubmission(results, s, selected) == {}

\* grading.py 63-66: DELETE FROM grading_results WHERE submission_id = %s
DeleteResults(results, s, selected) == {r \in results : r.submission_id # s}

Rollback_KeepsWrites(committed, working) == working

\* grading.py 26-27: leaving "with conn:" by an exception rolls the transaction back
Rollback(committed, working) == committed

\* grading.py 24-56
GradeSelect(s, problem_id, cap) ==
    /\ pc = "idle"
    /\ LET rows == SelectRows(s, problem_id) IN
       IF rows = {}
       THEN /\ response' = [NoResponse EXCEPT !.op = "grade", !.status = "not_found",
                                              !.sid = s, !.problem_id = problem_id]
            /\ UNCHANGED <<tx, pc, req, todo>>
       ELSE /\ next_result_id + Cardinality(rows) - 1 <= cap
            /\ response' = [NoResponse EXCEPT !.op = "grade", !.status = "pending",
                                              !.sid = s, !.problem_id = problem_id]
            /\ req' = [sid |-> s, problem_id |-> problem_id,
                       first_id |-> next_result_id, verifier_failed |-> FALSE,
                       repeated |-> /\ response.op = "grade"
                                    /\ response.status = "completed"
                                    /\ response.sid = s
                                    /\ response.problem_id = problem_id]
            /\ todo' = rows
            /\ tx' = [open |-> TRUE, results |-> grading_results, status |-> test_status]
            /\ pc' = "delete"
    /\ before' = Tables
    /\ UNCHANGED <<cur, stub, deterministic>>
    /\ UNCHANGED dbVars
    /\ UNCHANGED pureVars

\* grading.py 58-68
GradeDelete ==
    /\ pc = "delete"
    /\ tx' = [tx EXCEPT !.results = DeleteResults(@, req.sid, todo)]
    /\ pc' = "loop"
    /\ UNCHANGED <<req, before, todo, cur, response, stub, deterministic>>
    /\ UNCHANGED dbVars
    /\ UNCHANGED pureVars

\* grading.py 69-70: the next fetched row (the SELECT has no ORDER BY)
LoopNext ==
    /\ pc = "loop"
    /\ todo # {}
    /\ \E p \in todo :
          /\ cur' = [NoCur EXCEPT !.problem_id = p]
          /\ todo' = todo \ {p}
    /\ pc' = "relevance"
    /\ UNCHANGED <<tx, req, before, response, stub, deterministic>>
    /\ UNCHANGED dbVars
    /\ UNCHANGED pureVars

\* a capability that answers the same input the same way keeps its first answer
StubAllows(p, capability, reply) ==
    \/ ~deterministic
    \/ stub[req.sid, p][capability] = Unset
    \/ stub[req.sid, p][capability] = reply

Remember(p, capability, reply, called) ==
    IF deterministic /\ called
    THEN [stub EXCEPT ![req.sid, p][capability] = reply]
    ELSE stub

CurrentSubmission == problem_submissions[req.sid, cur.problem_id]

AfterRelevance_NoShortCircuit(verdict) == "structure"

\* grading.py 78, 105: "if not is_relevant: ... continue", else the stages below it
AfterRelevance(verdict) ==
    IF verdict.is_relevant THEN "structure" ELSE "irrelevant"

\* grading.py 72-78
CheckRelevance(reply) ==
    /\ pc = "relevance"
    /\ StubAllows(cur.problem_id, "rel", reply)
    /\ LET ps == CurrentSubmission
           text_to_check == PyOr(ps.ocr_text, PyOr(ps.student_solution, "empty"))
           verdict == check_relevance(text_to_check, reply)
       IN /\ cur' = [cur EXCEPT !.relevance = verdict]
          /\ pc' = AfterRelevance(verdict)
          /\ stub' = Remember(cur.problem_id, "rel", reply, verdict.called)
    /\ UNCHANGED <<tx, req, before, todo, response, deterministic>>
    /\ UNCHANGED dbVars
    /\ UNCHANGED pureVars

\* grading.py 83-86, 101: the two texts formatted around relevance_reason
IrrelevanceFeedback(reason) ==
    "Your submission does not appear to be an attempt at the assigned problem. Reason: "
        \o reason
IrrelevanceSummary(reason) == "Submission irrelevant: " \o reason

IrrelevantRow_DropsReason ==
    [result_id |-> next_result_id, submission_id |-> req.sid, problem_id |-> cur.problem_id,
     answer_correctness |-> 0, answer_is_correct |-> FALSE,
     logical_flow_score |-> 0, first_error_step_index |-> 0,
     error_summary |-> "Submission irrelevant",
     final_score |-> 0, percentage |-> 0,
     hint_provided |-> "Your submission does not appear to be an attempt at the assigned problem."]

\* grading.py 88-104: the row of a submission the gate rejected
IrrelevantRow ==
    [result_id |-> next_result_id, submission_id |-> req.sid, problem_id |-> cur.problem_id,
     answer_correctness |-> 0, answer_is_correct |-> FALSE,
     logical_flow_score |-> 0, first_error_step_index |-> 0,
     error_summary |-> IrrelevanceSummary(cur.relevance.reason),
     final_score |-> 0, percentage |-> 0,
     hint_provided |-> IrrelevanceFeedback(cur.relevance.reason)]

\* grading.py 78-105
InsertIrrelevant ==
    /\ pc = "irrelevant"
    /\ tx' = [tx EXCEPT !.results = @ \cup {IrrelevantRow}]
    /\ next_result_id' = next_result_id + 1
    /\ pc' = "loop"
    /\ UNCHANGED <<problem_submissions, test_status, grading_results>>
    /\ UNCHANGED <<req, before, todo, cur, response, stub, deterministic>>
    /\ UNCHANGED pureVars

\* grading.py 119-123
ProofHeuristic(is_proof, problem_text) ==
    IF ~is_proof /\ problem_text # << >>
    THEN (IF HasProofKeyword(lower(problem_text)) THEN TRUE ELSE is_proof)
    ELSE is_proof

\* grading.py 119-123 on the text of a reference problem
ProofMode(is_proof, problem) == ProofHeuristic(is_proof, ProblemText(problem))

\* grading.py 107-123
ExtractStructure(reply) ==
    /\ pc = "structure"
    /\ StubAllows(cur.problem_id, "ext", reply)
    /\ LET ps == CurrentSubmission
           structure == extract_solution_structure(ps.ocr_text, reply)
           used == ~Falsy(ps.ocr_text)
       IN /\ cur' = IF used
                    THEN [cur EXCEPT
                            !.structured_answer = structure.student_answer,
                            !.structured_steps = JoinSteps(structure.student_steps),
                            !.is_proof = ProofMode(structure.is_proof,
                                                   OmniMath(cur.problem_id).problem),
                            !.extracted = TRUE,
                            !.fallback = structure.fallback]
                    ELSE [cur EXCEPT
                            !.structured_answer = ps.student_answer,
                            !.structured_steps = PyOr(ps.student_solution, "empty"),
                            !.is_proof = ProofMode(FALSE, OmniMath(cur.problem_id).problem)]
          /\ stub' = Remember(cur.problem_id, "ext", reply, used /\ structure.called)
    /\ pc' = "answer"
    /\ UNCHANGED <<tx, req, before, todo, response, deterministic>>
    /\ UNCHANGED dbVars
    /\ UNCHANGED pureVars

AnswerVerdict_NoBypass(is_proof, structured_answer, correct_answer, reply) ==
    LET v == verify_answer_correctness(structured_answer, correct_answer, reply) IN
    IF v.raised
    THEN [is_correct |-> FALSE, confidence |-> 0, match_type |-> None,
          called |-> TRUE, failed |-> TRUE]
    ELSE [is_correct |-> v.is_correct, confidence |-> v.confidence,
          match_type |-> v.match_type, called |-> v.called, failed |-> FALSE]

\* grading.py 125-136: proof bypass, else the verifier, its exception swallowed
AnswerVerdict(is_proof, structured_answer, correct_answer, reply) ==
    IF is_proof
    THEN [is_correct |-> TRUE, confidence |-> 100, match_type |-> "proof_bypass",
          called |-> FALSE, failed |-> FALSE]
    ELSE LET v == verify_answer_correctness(structured_answer, correct_answer, reply) IN
         IF v.raised
         THEN [is_correct |-> FALSE, confidence |-> 0, match_type |-> None,
               called |-> TRUE, failed |-> TRUE]
         ELSE [is_correct |-> v.is_correct, confidence |-> v.confidence,
               match_type |-> v.match_type, called |-> v.called, failed |-> FALSE]

\* grading.py 138-143: the verifier, its exception swallowed
LogicVerdict(structured_steps, reply) ==
    LET v == verify_solution_logical_flow(structured_steps, reply) IN
    IF v.raised
    THEN [logical_score |-> 0, first_error_step_index |-> 0,
          error_summary |-> "Evaluation failed", called |-> TRUE, failed |-> TRUE]
    ELSE [logical_score |-> v.logical_score,
          first_error_step_index |-> v.first_error_step_index,
          error_summary |-> v.error_summary, called |-> v.called, failed |-> FALSE]

\* grading.py 125-136
VerifyAnswer(reply) ==
    /\ pc = "answer"
    /\ StubAllows(cur.problem_id, "ans", reply)
    /\ LET ar == AnswerVerdict(cur.is_proof, cur.structured_answer,
                               OmniMath(cur.problem_id).answer, reply)
       IN /\ cur' = [cur EXCEPT !.ar = ar]
          /\ req' = [req EXCEPT !.verifier_failed = @ \/ ar.failed]
          /\ stub' = Remember(cur.problem_id, "ans", reply, ar.called)
    /\ pc' = "logic"
    /\ UNCHANGED <<tx, before, todo, response, deterministic>>
    /\ UNCHANGED dbVars
    /\ UNCHANGED pureVars

\* grading.py 138-143
VerifyLogic(reply) ==
    /\ pc = "logic"
    /\ StubAllows(cur.problem_id, "logic", reply)
    /\ LET sr == LogicVerdict(cur.structured_steps, reply)
       IN /\ cur' = [cur EXCEPT !.sr = sr]
          /\ req' = [req EXCEPT !.verifier_failed = @ \/ sr.failed]
          /\ stub' = Remember(cur.problem_id, "logic", reply, sr.called)
    /\ pc' = "score"
    /\ UNCHANGED <<tx, before, todo, response, deterministic>>
    /\ UNCHANGED dbVars
    /\ UNCHANGED pureVars

\* grading.py 145-186
ComposeScore ==
    /\ pc = "score"
    /\ LET w == WaterfallScore(cur.is_proof, cur.ar.is_correct, cur.sr.logical_score)
       IN cur' = [cur EXCEPT !.answer_correct = w.answer_correct,
                             !.percentage = w.percentage,
                             !.final_score = FinalScore(w.percentage)]
    /\ pc' = "feedback"
    /\ UNCHANGED <<tx, req, before, todo, response, stub, deterministic>>
    /\ UNCHANGED dbVars
    /\ UNCHANGED pureVars

\* grading.py 188-200
Feedback(reply) ==
    /\ pc = "feedback"
    /\ StubAllows(cur.problem_id, "fb", reply)
    /\ cur' = [cur EXCEPT
                 !.hint_provided =
                     generate_diagnostic_feedback(OmniMath(cur.problem_id).problem,
                                                  cur.structured_steps,
                                                  cur.structured_answer, reply),
                 !.feedback_called = TRUE,
                 !.feedback_is_correct = cur.answer_correct]
    /\ stub' = Remember(cur.problem_id, "fb", reply, TRUE)
    /\ pc' = "insert"
    /\ UNCHANGED <<tx, req, before, todo, response, deterministic>>
    /\ UNCHANGED dbVars
    /\ UNCHANGED pureVars

ResultRow ==
    [result_id |-> next_result_id, submission_id |-> req.sid, problem_id |-> cur.problem_id,
     answer_correctness |-> cur.ar.confidence, answer_is_correct |-> cur.ar.is_correct,
     logical_flow_score |-> cur.sr.logical_score,
     first_error_step_index |-> cur.sr.first_error_step_index,
     error_summary |-> cur.sr.error_summary,
     final_score |-> cur.final_score, percentage |-> cur.percentage,
     hint_provided |-> cur.hint_provided]

\* grading.py 202-227
InsertResult ==
    /\ pc = "insert"
    /\ tx' = [tx EXCEPT !.results = @ \cup {ResultRow}]
    /\ next_result_id' = next_result_id + 1
    /\ pc' = "loop"
    /\ UNCHANGED <<problem_submissions, test_status, grading_results>>
    /\ UNCHANGED <<req, before, todo, cur, response, stub, deterministic>>
    /\ UNCHANGED pureVars

\* grading.py 229-232: UPDATE test_submissions SET status='graded'
MarkGraded(status, s) ==
    IF status[s] = NoStatus THEN status ELSE [status EXCEPT ![s] = "graded"]

LoopDone_Early(rows) == TRUE
LoopDone_Never(rows) == FALSE

\* grading.py 69, 229: the UPDATE follows the for loop over the fetched rows
LoopDone(rows) == rows = {}

UpdateStatus ==
    /\ pc = "loop"
    /\ LoopDone(todo)
    /\ tx' = [tx EXCEPT !.status = MarkGraded(@, req.sid)]
    /\ pc' = "commit"
    /\ cur' = NoCur
    /\ UNCHANGED <<req, before, todo, response, stub, deterministic>>
    /\ UNCHANGED dbVars
    /\ UNCHANGED pureVars

\* grading.py 27, 234: "with conn:" commits, then the completion message
Commit ==
    /\ pc = "commit"
    /\ grading_results' = tx.results
    /\ test_status' = tx.status
    /\ response' = [response EXCEPT !.status = "completed",
                                    !.first_id = req.first_id,
                                    !.verifier_failed = req.verifier_failed]
    /\ tx' = IdleTx
    /\ pc' = "idle"
    /\ req' = NoRequest
    /\ before' = NoBefore
    /\ UNCHANGED <<problem_submissions, next_result_id, todo, cur, stub, deterministic>>
    /\ UNCHANGED pureVars

\* grading.py 26-27, 235-236: an exception no handler of the loop catches (a failed
\* statement of the connection, a malformed structure) leaves "with conn:"
Abort ==
    /\ pc \notin {"idle"}
    /\ grading_results' = Rollback(grading_results, tx.results)
    /\ test_status' = Rollback(test_status, tx.status)
    /\ response' = [NoResponse EXCEPT !.op = "grade", !.status = "error"]
    /\ tx' = IdleTx
    /\ pc' = "idle"
    /\ req' = NoRequest
    /\ todo' = {}
    /\ cur' = NoCur
    /\ UNCHANGED <<problem_submissions, next_result_id, before, stub, deterministic>>
    /\ UNCHANGED pureVars

(***************************************************************************)
(* get_results (grading.py), a request served on its own connection while  *)
(* a grade_submission may be running.                                      *)
(***************************************************************************)
NoRead == [set |-> FALSE, sid |-> 0, during |-> FALSE, rewriting |-> FALSE,
           rows |-> << >>, prior |-> << >>, status |-> NoStatus]

\* grading.py 246-248, 256-268: the columns of a row the response carries
Project(r) ==
    [problem_id |-> r.problem_id, answer_is_correct |-> r.answer_is_correct,
     answer_confidence |-> r.answer_correctness,
     logical_flow_score |-> r.logical_flow_score, percentage |-> r.percentage,
     first_error_step_index |-> r.first_error_step_index,
     error_summary |-> r.error_summary, hint_provided |-> r.hint_provided,
     final_score |-> r.final_score]

RECURSIVE SetToSeq(_)
SetToSeq(rows) ==
    IF rows = {} THEN << >>
    ELSE LET r == CHOOSE x \in rows : \A y \in rows : x.result_id <= y.result_id
         IN <<Project(r)>> \o SetToSeq(rows \ {r})

\* grading.py 249-251: WHERE gr.submission_id = %s ORDER BY gr.problem_id
RECURSIVE ReadRows(_, _, _)
ReadRows(results, s, p) ==
    IF p \notin Problems THEN << >>
    ELSE SetToSeq(RowsOfProblem(results, s, p)) \o ReadRows(results, s, p + 1)

Visible_Uncommitted(committed, working) == IF tx.open THEN working ELSE committed

\* db.py 9-20, grading.py 241: the reader has a connection of its own, and a
\* statement on it sees the rows committed when it starts
Visible(committed, working) == committed

\* grading.py 239-271; during, rewriting and prior note whether a grade of the
\* same submission was running, whether it had changed its rows, and the rows it
\* found; status notes the committed status of the submission at the read
get_results(s) ==
    /\ results_read' =
          [set |-> TRUE, sid |-> s,
           during |-> tx.open /\ req.sid = s,
           rewriting |-> /\ tx.open
                         /\ req.sid = s
                         /\ ResultsOf(tx.results, s) # ResultsOf(grading_results, s),
           rows |-> ReadRows(Visible(grading_results, tx.results), s, 1),
           prior |-> IF tx.open /\ req.sid = s
                     THEN ReadRows(before.results, s, 1) ELSE << >>,
           status |-> test_status[s]]
    /\ UNCHANGED <<sc_in, sc_out, va_in, va_out, lf_in, lf_out, pm_in, pm_out>>
    /\ UNCHANGED dbVars
    /\ UNCHANGED runVars

(***************************************************************************)
(* The service: requests one at a time.                                    *)
(***************************************************************************)
NoScoreIn  == [set |-> FALSE, is_proof |-> FALSE, answer_correct |-> FALSE, logic_score |-> 0]
NoScoreOut == [set |-> FALSE, percentage |-> 0, answer_correct |-> FALSE]
NoVerifyIn == [set |-> FALSE, revision |-> None, student_answer |-> EmptyStr,
               correct_answer |-> EmptyStr, reply |-> Failure, similarity |-> Failure]
NoVerifyOut == [set |-> FALSE, result |-> Raised]
NoFlowIn == [set |-> FALSE, revision |-> None, student_solution |-> None,
             reply |-> Failure, fallback |-> Failure]
NoFlowOut == [set |-> FALSE, result |-> Raised]

NoProofIn == [set |-> FALSE, is_proof |-> FALSE, problem_text |-> << >>]
NoProofOut == [set |-> FALSE, is_proof |-> FALSE]
InitTables ==
    /\ problem_submissions = [k \in Submissions \X Problems |-> NoSubmission]
    /\ test_status = [s \in Submissions |-> NoStatus]
    /\ grading_results = {}
    /\ next_result_id = 1
    /\ tx = IdleTx
    /\ pc = "idle"
    /\ req = NoRequest
    /\ before = NoBefore
    /\ todo = {}
    /\ cur = NoCur
    /\ response = NoResponse
    /\ stub = [k \in Submissions \X Problems |-> NoStub]

InitPure ==
    /\ sc_in = NoScoreIn
    /\ sc_out = NoScoreOut
    /\ va_in = NoVerifyIn
    /\ va_out = NoVerifyOut
    /\ lf_in = NoFlowIn
    /\ lf_out = NoFlowOut
    /\ results_read = NoRead
    /\ pm_in = NoProofIn
    /\ pm_out = NoProofOut

Init ==
    /\ InitTables
    /\ InitPure
    /\ deterministic = FALSE

\* Inputs and replies of the runs of Spec: one of each kind the tables and the
\* transaction can tell apart.
SpecUploads == {<<1, 1>>, <<1, 2>>}
SpecTexts == {"blank", "long"}
SpecExtracted(text) == IF Blank(text) THEN EmptyStr ELSE <<"5">>
SpecRelevance == {r \in RelevanceReplies : r.ok}
SpecExtract == {r \in ExtractReplies : r.ok /\ r.student_answer # EmptyStr}
SpecAnswer == {r \in AnswerReplies : ~r.ok \/ r.is_correct}
SpecLogic == {r \in LogicReplies : ~r.ok \/ r.logical_score = 50}
SpecFeedback == {r \in FeedbackReplies : r.ok /\ r.text = "feedback"}

Next ==
    \/ \E k \in SpecUploads, text \in SpecTexts :
          submit_solution(k[1], k[2], text, SpecExtracted(text))
    \/ \E s \in Submissions, a \in Problems \cup {NoProblem} : GradeSelect(s, a, MaxResultId)
    \/ GradeDelete
    \/ LoopNext
    \/ \E reply \in SpecRelevance : CheckRelevance(reply)
    \/ InsertIrrelevant
    \/ \E reply \in SpecExtract : ExtractStructure(reply)
    \/ \E reply \in SpecAnswer : VerifyAnswer(reply)
    \/ \E reply \in SpecLogic : VerifyLogic(reply)
    \/ ComposeScore
    \/ \E reply \in SpecFeedback : Feedback(reply)
    \/ InsertResult
    \/ UpdateStatus
    \/ Commit
    \/ Abort

Spec == Init /\ [][Next]_vars

(***************************************************************************)
(* One row through the loop body: the table holds one problem submission   *)
(* (the state one submit_solution leaves) and the capabilities may give    *)
(* any of their replies.                                                   *)
(***************************************************************************)
MaxPipelineId == 1

OneSubmission(p, text, extracted) ==
    [k \in Submissions \X Problems |->
        IF k = <<1, p>>
        THEN UpsertProblemSubmission(NoSubmission, text, extracted)
        ELSE NoSubmission]

InitPipeline ==
    /\ \E p \in Problems, text \in TextKinds :
          \E extracted \in ExtractedAnswers(text) :
             problem_submissions = OneSubmission(p, text, extracted)
    /\ test_status = UpsertStatus([s \in Submissions |-> NoStatus], 1)
    /\ grading_results = {}
    /\ next_result_id = 1
    /\ tx = IdleTx
    /\ pc = "idle"
    /\ req = NoRequest
    /\ before = NoBefore
    /\ todo = {}
    /\ cur = NoCur
    /\ response = NoResponse
    /\ stub = [k \in Submissions \X Problems |-> NoStub]
    /\ deterministic = FALSE
    /\ InitPure

NextPipeline ==
    \/ \E s \in Submissions, a \in Problems \cup {NoProblem} : GradeSelect(s, a, MaxPipelineId)
    \/ GradeDelete
    \/ LoopNext
    \/ \E reply \in RelevanceReplies : CheckRelevance(reply)
    \/ InsertIrrelevant
    \/ \E reply \in ExtractReplies : ExtractStructure(reply)
    \/ \E reply \in AnswerReplies : VerifyAnswer(reply)
    \/ \E reply \in LogicReplies : VerifyLogic(reply)
    \/ ComposeScore
    \/ \E reply \in FeedbackReplies : Feedback(reply)
    \/ InsertResult
    \/ UpdateStatus
    \/ Commit
    \/ Abort

SpecPipeline == InitPipeline /\ [][NextPipeline]_vars

(***************************************************************************)
(* Re-grading with capabilities that answer the same input the same way.   *)
(***************************************************************************)
RegradeLogic == {r \in LogicReplies : ~r.ok \/ r.logical_score \in {50, 80}}

TwoSubmissions(text1, text2) ==
    [k \in Submissions \X Problems |->
        IF k = <<1, 1>> THEN UpsertProblemSubmission(NoSubmission, text1, SpecExtracted(text1))
        ELSE IF k = <<1, 2>>
        THEN UpsertProblemSubmission(NoSubmission, text2, SpecExtracted(text2))
        ELSE NoSubmission]

\* the state two calls of submit_solution leave
InitRegrade ==
    /\ \E text1 \in SpecTexts, text2 \in SpecTexts :
          problem_submissions = TwoSubmissions(text1, text2)
    /\ test_status = UpsertStatus([s \in Submissions |-> NoStatus], 1)
    /\ grading_results = {}
    /\ next_result_id = 1
    /\ tx = IdleTx
    /\ pc = "idle"
    /\ req = NoRequest
    /\ before = NoBefore
    /\ todo = {}
    /\ cur = NoCur
    /\ response = NoResponse
    /\ stub = [k \in Submissions \X Problems |-> NoStub]
    /\ deterministic = TRUE
    /\ InitPure

NextRegrade ==
    \/ \E s \in Submissions, a \in Problems \cup {NoProblem} : GradeSelect(s, a, MaxResultId)
    \/ GradeDelete
    \/ LoopNext
    \/ \E reply \in SpecRelevance : CheckRelevance(reply)
    \/ InsertIrrelevant
    \/ \E reply \in SpecExtract : ExtractStructure(reply)
    \/ \E reply \in AnswerReplies : VerifyAnswer(reply)
    \/ \E reply \in RegradeLogic : VerifyLogic(reply)
    \/ ComposeScore
    \/ \E reply \in SpecFeedback : Feedback(reply)
    \/ InsertResult
    \/ UpdateStatus
    \/ Commit
    \/ Abort

SpecRegrade == InitRegrade /\ [][NextRegrade]_vars

(***************************************************************************)
(* Score composition applied to one input.                                 *)
(***************************************************************************)
InitCompose ==
    /\ InitTables
    /\ deterministic = FALSE
    /\ sc_in \in [set : {TRUE}, is_proof : BOOLEAN, answer_correct : BOOLEAN,
                  logic_score : 0..Scale]
    /\ sc_out = NoScoreOut
    /\ va_in = NoVerifyIn
    /\ va_out = NoVerifyOut
    /\ lf_in = NoFlowIn
    /\ lf_out = NoFlowOut
    /\ results_read = NoRead
    /\ pm_in = NoProofIn
    /\ pm_out = NoProofOut

Compose ==
    /\ sc_in.set
    /\ ~sc_out.set
    /\ LET w == WaterfallScore(sc_in.is_proof, sc_in.answer_correct, sc_in.logic_score)
       IN sc_out' = [set |-> TRUE, percentage |-> w.percentage,
                     answer_correct |-> w.answer_correct]
    /\ UNCHANGED <<sc_in, va_in, va_out, lf_in, lf_out, results_read, pm_in, pm_out>>
    /\ UNCHANGED dbVars
    /\ UNCHANGED runVars

NextCompose == Compose

SpecCompose == InitCompose /\ [][NextCompose]_vars

(***************************************************************************)
(* One call of the Answer Verifier, in either revision.                    *)
(***************************************************************************)
\* every string over Chars up to the bound, and one holding the characters the
\* legacy normalizer replaces
Strings == UNION {[1..n -> Chars] : n \in 0..MaxAnswerLen} \cup {Mojibake \o <<"5">>}

InitVerify ==
    /\ InitTables
    /\ deterministic = FALSE
    /\ sc_in = NoScoreIn
    /\ sc_out = NoScoreOut
    /\ va_in \in [set : {TRUE}, revision : {"current", "legacy"},
                  student_answer : Strings, correct_answer : Strings,
                  reply : AnswerReplies, similarity : SimilarityReplies]
    /\ va_out = NoVerifyOut
    /\ lf_in = NoFlowIn
    /\ lf_out = NoFlowOut
    /\ results_read = NoRead
    /\ pm_in = NoProofIn
    /\ pm_out = NoProofOut

VerifyCurrent ==
    /\ va_in.set
    /\ ~va_out.set
    /\ va_in.revision = "current"
    /\ va_out' = [set |-> TRUE,
                  result |-> verify_answer_correctness(va_in.student_answer,
                                                       va_in.correct_answer, va_in.reply)]
    /\ UNCHANGED <<sc_in, sc_out, va_in, lf_in, lf_out, results_read, pm_in, pm_out>>
    /\ UNCHANGED dbVars
    /\ UNCHANGED runVars

VerifyLegacy ==
    /\ va_in.set
    /\ ~va_out.set
    /\ va_in.revision = "legacy"
    /\ va_out' = [set |-> TRUE,
                  result |-> legacy_verify_answer_correctness(
                                 va_in.student_answer, va_in.correct_answer,
                                 va_in.reply, va_in.similarity)]
    /\ UNCHANGED <<sc_in, sc_out, va_in, lf_in, lf_out, results_read, pm_in, pm_out>>
    /\ UNCHANGED dbVars
    /\ UNCHANGED runVars

NextVerify == VerifyCurrent \/ VerifyLegacy

SpecVerify == InitVerify /\ [][NextVerify]_vars

(***************************************************************************)
(* One call of the Logical-Flow Verifier, in either revision.              *)
(***************************************************************************)
InitFlow ==
    /\ InitTables
    /\ deterministic = FALSE
    /\ sc_in = NoScoreIn
    /\ sc_out = NoScoreOut
    /\ va_in = NoVerifyIn
    /\ va_out = NoVerifyOut
    /\ lf_in \in [set : {TRUE}, revision : {"current", "legacy"},
                  student_solution : TextKinds \cup {None},
                  reply : LogicReplies, fallback : FlowFallbacks]
    /\ lf_out = NoFlowOut
    /\ results_read = NoRead
    /\ pm_in = NoProofIn
    /\ pm_out = NoProofOut

FlowCurrent ==
    /\ lf_in.set
    /\ ~lf_out.set
    /\ lf_in.revision = "current"
    /\ lf_out' = [set |-> TRUE,
                  result |-> verify_solution_logical_flow(lf_in.student_solution,
                                                          lf_in.reply)]
    /\ UNCHANGED <<sc_in, sc_out, va_in, va_out, lf_in, results_read, pm_in, pm_out>>
    /\ UNCHANGED dbVars
    /\ UNCHANGED runVars

FlowLegacy ==
    /\ lf_in.set
    /\ ~lf_out.set
    /\ lf_in.revision = "legacy"
    /\ lf_out' = [set |-> TRUE,
                  result |-> legacy_verify_solution_logical_flow(
                                 lf_in.student_solution, lf_in.reply, lf_in.fallback)]
    /\ UNCHANGED <<sc_in, sc_out, va_in, va_out, lf_in, results_read, pm_in, pm_out>>
    /\ UNCHANGED dbVars
    /\ UNCHANGED runVars

NextFlow == FlowCurrent \/ FlowLegacy

SpecFlow == InitFlow /\ [][NextFlow]_vars

(***************************************************************************)
(* The proof-keyword heuristic of grade_submission applied to one flag of  *)
(* the Structure Extractor and one problem text.                           *)
(***************************************************************************)
MaxTextLen == 3

ProblemTexts == UNION {[1..n -> Pieces] : n \in 0..MaxTextLen}

InitProof ==
    /\ InitTables
    /\ deterministic = FALSE
    /\ sc_in = NoScoreIn
    /\ sc_out = NoScoreOut
    /\ va_in = NoVerifyIn
    /\ va_out = NoVerifyOut
    /\ lf_in = NoFlowIn
    /\ lf_out = NoFlowOut
    /\ results_read = NoRead
    /\ pm_in \in [set : {TRUE}, is_proof : BOOLEAN, problem_text : ProblemTexts]
    /\ pm_out = NoProofOut

\* grading.py 119-123
ApplyHeuristic ==
    /\ pm_in.set
    /\ ~pm_out.set
    /\ pm_out' = [set |-> TRUE,
                  is_proof |-> ProofHeuristic(pm_in.is_proof, pm_in.problem_text)]
    /\ UNCHANGED <<sc_in, sc_out, va_in, va_out, lf_in, lf_out, results_read, pm_in>>
    /\ UNCHANGED dbVars
    /\ UNCHANGED runVars

NextProof == ApplyHeuristic

SpecProof == InitProof /\ [][NextProof]_vars

(***************************************************************************)
(* A reader beside the grades of a submission with two problems.           *)
(***************************************************************************)
MaxReaderId == 3

ReaderLogic == {r \in LogicReplies : r.ok /\ r.logical_score = 50}
ReaderAnswer == {r \in AnswerReplies : r.ok /\ r.is_correct}
ReaderExtract == {r \in SpecExtract : ~r.is_proof}

InitReader ==
    /\ problem_submissions = TwoSubmissions("long", "long")
    /\ test_status = UpsertStatus([s \in Submissions |-> NoStatus], 1)
    /\ grading_results = {}
    /\ next_result_id = 1
    /\ tx = IdleTx
    /\ pc = "idle"
    /\ req = NoRequest
    /\ before = NoBefore
    /\ todo = {}
    /\ cur = NoCur
    /\ response = NoResponse
    /\ stub = [k \in Submissions \X Problems |-> NoStub]
    /\ deterministic = FALSE
    /\ InitPure

NextReader ==
    \/ \E s \in Submissions : get_results(s)
    \/ \E s \in Submissions, a \in Problems \cup {NoProblem} : GradeSelect(s, a, MaxReaderId)
    \/ GradeDelete
    \/ LoopNext
    \/ \E reply \in SpecRelevance : CheckRelevance(reply)
    \/ InsertIrrelevant
    \/ \E reply \in ReaderExtract : ExtractStructure(reply)
    \/ \E reply \in ReaderAnswer : VerifyAnswer(reply)
    \/ \E reply \in ReaderLogic : VerifyLogic(reply)
    \/ ComposeScore
    \/ \E reply \in SpecFeedback : Feedback(reply)
    \/ InsertResult
    \/ UpdateStatus
    \/ Commit
    \/ Abort

SpecReader == InitReader /\ [][NextReader]_vars

(***************************************************************************)
(* A grade whose verifier calls return and whose connection does not fail: *)
(* only the Relevance Gate, the Structure Extractor and the Feedback       *)
(* Generator may see their capability raise.  The handler runs on to its   *)
(* return once started, each external call returning or raising.           *)
(***************************************************************************)
MaxLiveId == 2

LiveAnswer == {r \in AnswerReplies : r.ok}
LiveLogic == {r \in LogicReplies : r.ok /\ r.logical_score \in {50, 80}}
LiveFeedback == {r \in FeedbackReplies : ~r.ok \/ r.text = "feedback"}

InitLive ==
    /\ \E text1 \in SpecTexts : problem_submissions = TwoSubmissions(text1, "long")
    /\ test_status = UpsertStatus([s \in Submissions |-> NoStatus], 1)
    /\ grading_results = {}
    /\ next_result_id = 1
    /\ tx = IdleTx
    /\ pc = "idle"
    /\ req = NoRequest
    /\ before = NoBefore
    /\ todo = {}
    /\ cur = NoCur
    /\ response = NoResponse
    /\ stub = [k \in Submissions \X Problems |-> NoStub]
    /\ deterministic = FALSE
    /\ InitPure

\* the statements of grade_submission after the SELECT
GradeStep ==
    \/ GradeDelete
    \/ LoopNext
    \/ \E reply \in RelevanceReplies : CheckRelevance(reply)
    \/ InsertIrrelevant
    \/ \E reply \in ExtractReplies : ExtractStructure(reply)
    \/ \E reply \in LiveAnswer : VerifyAnswer(reply)
    \/ \E reply \in LiveLogic : VerifyLogic(reply)
    \/ ComposeScore
    \/ \E reply \in LiveFeedback : Feedback(reply)
    \/ InsertResult
    \/ UpdateStatus
    \/ Commit

NextLive ==
    \/ \E s \in Submissions, a \in Problems \cup {NoProblem} : GradeSelect(s, a, MaxLiveId)
    \/ GradeStep

SpecLive == InitLive /\ [][NextLive]_vars /\ WF_vars(GradeStep)

(***************************************************************************)
(* Two submissions side by side, each with one problem submission: uploads *)
(* and grades of either, a grade completing or failing.                    *)
(***************************************************************************)
MaxFrameId == 3

FrameUploads == {<<1, 1>>, <<2, 2>>}

InitFrame ==
    /\ problem_submissions =
          [k \in Submissions \X Problems |->
              IF k \in FrameUploads
              THEN UpsertProblemSubmission(NoSubmission, "long", SpecExtracted("long"))
              ELSE NoSubmission]
    /\ test_status = UpsertStatus(UpsertStatus([s \in Submissions |-> NoStatus], 1), 2)
    /\ grading_results = {}
    /\ next_result_id = 1
    /\ tx = IdleTx
    /\ pc = "idle"
    /\ req = NoRequest
    /\ before = NoBefore
    /\ todo = {}
    /\ cur = NoCur
    /\ response = NoResponse
    /\ stub = [k \in Submissions \X Problems |-> NoStub]
    /\ deterministic = FALSE
    /\ InitPure

NextFrame ==
    \/ \E k \in FrameUploads, text \in SpecTexts :
          submit_solution(k[1], k[2], text, SpecExtracted(text))
    \/ \E s \in Submissions, a \in Problems \cup {NoProblem} : GradeSelect(s, a, MaxFrameId)
    \/ GradeDelete
    \/ LoopNext
    \/ \E reply \in SpecRelevance : CheckRelevance(reply)
    \/ InsertIrrelevant
    \/ \E reply \in SpecExtract : ExtractStructure(reply)
    \/ \E reply \in SpecAnswer : VerifyAnswer(reply)
    \/ \E reply \in SpecLogic : VerifyLogic(reply)
    \/ ComposeScore
    \/ \E reply \in SpecFeedback : Feedback(reply)
    \/ InsertResult
    \/ UpdateStatus
    \/ Commit
    \/ Abort

SpecFrame == InitFrame /\ [][NextFrame]_vars

(***************************************************************************)
(* One submission that is uploaded to again after it was graded, read by   *)
(* get_results at any moment.                                              *)
(***************************************************************************)
MaxReuploadId == 2

NextReupload ==
    \/ \E text \in SpecTexts : submit_solution(1, 1, text, SpecExtracted(text))
    \/ \E s \in Submissions : get_results(s)
    \/ \E s \in Submissions, a \in Problems \cup {NoProblem} :
          GradeSelect(s, a, MaxReuploadId)
    \/ GradeDelete
    \/ LoopNext
    \/ \E reply \in SpecRelevance : CheckRelevance(reply)
    \/ InsertIrrelevant
    \/ \E reply \in ReaderExtract : ExtractStructure(reply)
    \/ \E reply \in ReaderAnswer : VerifyAnswer(reply)
    \/ \E reply \in SpecLogic : VerifyLogic(reply)
    \/ ComposeScore
    \/ \E reply \in SpecFeedback : Feedback(reply)
    \/ InsertResult
    \/ UpdateStatus
    \/ Commit
    \/ Abort

SpecReupload == Init /\ [][NextReupload]_vars

(***************************************************************************)
(* Properties.                                                             *)
(***************************************************************************)
RowsFor(results, s, p) == {r \in results : r.submission_id = s /\ r.problem_id = p}
PercentagesOf(results, s) == {<<r.problem_id, r.percentage>> : r \in ResultsOf(results, s)}
Matches(s, problem_id, p) ==
    problem_submissions[s, p].present /\ (problem_id = NoProblem \/ p = problem_id)
Completed == pc = "idle" /\ response.op = "grade" /\ response.status = "completed"

PolicyTable(is_proof, answer_correct, logic_score) ==
    IF is_proof
    THEN (IF logic_score >= 80 THEN 100 ELSE IF logic_score >= 50 THEN 75
          ELSE IF logic_score >= 30 THEN 40 ELSE 0)
    ELSE IF answer_correct
    THEN (IF logic_score >= 70 THEN 100 ELSE IF logic_score >= 40 THEN 80 ELSE 40)
    ELSE (IF logic_score >= 80 THEN 60 ELSE IF logic_score >= 40 THEN 30 ELSE 0)

\* C1: for every is_proof, answer-correct flag and logical score the composed
\* percentage is the one the policy table gives.
C1_PolicyTable ==
    sc_out.set =>
        sc_out.percentage =
            PolicyTable(sc_in.is_proof, sc_in.answer_correct, sc_in.logic_score)

C1_Witness ==
    /\ sc_out.set
    /\ ~sc_in.is_proof
    /\ sc_in.answer_correct
    /\ sc_in.logic_score = 70
    /\ sc_out.percentage = 100

\* C2: a grade in which the Answer Verifier or the Logical-Flow Verifier raised
\* never completes: it persists no result and does not mark the submission graded.
C2_VerifierFailureAborts ==
    ~(response.status = "completed" /\ response.verifier_failed)

\* C3: with non-empty answers that are not an exact match, a failed equivalence
\* call makes verify_answer_correctness raise instead of returning a verdict.
C3_NoVerdictOnFailure ==
    (/\ va_out.set
     /\ ~va_in.reply.ok
     /\ va_in.student_answer # EmptyStr
     /\ va_in.correct_answer # EmptyStr
     /\ normalize_answer_text(va_in.student_answer)
            # normalize_answer_text(va_in.correct_answer))
    => va_out.result.raised

\* C4: a grade that ended in an error leaves grading_results and the status of
\* every submission exactly as it found them.
C4_FailedGradeIsAtomic ==
    (pc = "idle" /\ response.op = "grade" /\ response.status = "error")
    => Tables = before

C4_Witness ==
    /\ pc = "idle"
    /\ response.status = "error"
    /\ test_status[1] = "graded"
    /\ ResultsOf(grading_results, 1) # {}
    /\ \A r \in grading_results : r.result_id + 1 < next_result_id

\* C5: a grade request that matches no problem submission is answered not-found
\* and writes nothing; a grade that goes on matched at least one.
C5_NotFoundWritesNothing ==
    /\ (response.op = "grade" /\ response.status \in {"pending", "completed"})
       => \E p \in Problems : Matches(response.sid, response.problem_id, p)
    /\ response.status = "not_found"
       => /\ pc = "idle"
          /\ ~tx.open
          /\ Tables = before
          /\ ~\E p \in Problems : Matches(response.sid, response.problem_id, p)

C5_Witness ==
    /\ response.status = "not_found"
    /\ response.problem_id # NoProblem
    /\ SubmittedProblems(response.sid) # {}
    /\ ResultsOf(grading_results, response.sid) # {}

\* C6 as stated: after a successful grade every problem of the submission has
\* exactly one GradingResult, whether or not a problem id was passed.
C6_OneResultPerProblem ==
    Completed =>
        \A p \in SubmittedProblems(response.sid) :
            Cardinality(RowsFor(grading_results, response.sid, p)) = 1

\* C6, amended: after a successful grade every problem the request selected has
\* exactly one GradingResult and the submission's other problems have none.
C6_OneResultPerSelectedProblem ==
    Completed =>
        \A p \in Problems :
            Cardinality(RowsFor(grading_results, response.sid, p)) =
                IF Matches(response.sid, response.problem_id, p) THEN 1 ELSE 0

C6_Witness ==
    /\ Completed
    /\ response.problem_id # NoProblem
    /\ Cardinality(SubmittedProblems(response.sid)) = 2
    /\ Cardinality(ResultsOf(grading_results, response.sid)) = 1
    /\ response.first_id > 2

\* C7: once the delete of a grade has run, and after the grade has completed,
\* every GradingResult of the submission was inserted by that grade.
C7_NoStaleResult ==
    /\ pc \notin {"idle", "delete"}
       => \A r \in ResultsOf(tx.results, req.sid) : r.result_id >= req.first_id
    /\ Completed
       => \A r \in ResultsOf(grading_results, response.sid) :
              r.result_id >= response.first_id

C7_Witness ==
    /\ pc = "commit"
    /\ req.problem_id # NoProblem
    /\ ResultsOf(tx.results, req.sid) # {}
    /\ \E r \in ResultsOf(grading_results, req.sid) : r.problem_id # req.problem_id

\* C8: in every state the tables reach there is at most one GradingResult per
\* (submission, problem).
C8_AtMostOnePerPair ==
    \A s \in Submissions, p \in Problems :
        Cardinality(RowsFor(grading_results, s, p)) <= 1

C8_Witness ==
    /\ pc = "idle"
    /\ Cardinality(ResultsOf(grading_results, 1)) = 2
    /\ \A r \in grading_results : r.result_id >= 3

\* C9: a grade that repeats the completed grade before it, the capabilities
\* answering as they did, is about to commit as many results, with the same
\* percentage per problem, as are committed.
C9_RegradeIdempotent ==
    (pc = "commit" /\ req.repeated)
    => /\ PercentagesOf(tx.results, req.sid) = PercentagesOf(grading_results, req.sid)
       /\ Cardinality(ResultsOf(tx.results, req.sid))
              = Cardinality(ResultsOf(grading_results, req.sid))

C9_Witness ==
    /\ pc = "commit"
    /\ req.repeated
    /\ Cardinality(ResultsOf(tx.results, req.sid)) = 2
    /\ \E r \in ResultsOf(tx.results, req.sid) : r.percentage = 75
    /\ \E r \in ResultsOf(tx.results, req.sid) : r.percentage = 30

\* C10: for a proof the verdict of score composition, which is the verdict given
\* to feedback generation, is true exactly when the logical score is at least
\* 0.5, whatever the Answer Verifier reported.
C10_ProofVerdict ==
    /\ \A reported \in BOOLEAN, x \in 0..Scale :
          WaterfallScore(TRUE, reported, x).answer_correct = (x >= 50)
    /\ (pc = "insert" /\ cur.is_proof)
       => /\ cur.feedback_is_correct = (cur.sr.logical_score >= 50)
          /\ cur.feedback_is_correct = (cur.percentage \in {75, 100})

C10_Witness ==
    /\ pc = "insert"
    /\ cur.is_proof
    /\ cur.ar.is_correct
    /\ cur.sr.logical_score = 30
    /\ cur.percentage = 40
    /\ ~cur.feedback_is_correct

Rejected == cur.problem_id # NoProblem /\ cur.relevance # NoRelevance /\ ~cur.relevance.is_relevant
StagesSkipped ==
    /\ ~cur.extracted
    /\ cur.structured_steps = None
    /\ cur.ar = NoAnswer
    /\ cur.sr = NoLogic
    /\ cur.percentage = 0
    /\ cur.final_score = 0
    /\ ~cur.feedback_called

\* C11: a problem the Relevance Gate rejects goes straight to a persisted result
\* with final_score 0, percentage 0 and a feedback text carrying the reason; no
\* later stage runs for it, and the loop goes on: at the status update every
\* selected problem has its result.
C11_IrrelevantShortCircuit ==
    /\ Rejected => pc \in {"irrelevant", "loop"} /\ StagesSkipped
    /\ (Rejected /\ pc = "loop")
       => \E r \in RowsFor(tx.results, req.sid, cur.problem_id) :
             /\ r.result_id = next_result_id - 1
             /\ r.final_score = 0
             /\ r.percentage = 0
             /\ r.hint_provided = IrrelevanceFeedback(cur.relevance.reason)
             /\ RowsFor(tx.results, req.sid, cur.problem_id) = {r}
    /\ pc = "commit"
       => \A p \in Problems :
             Matches(req.sid, req.problem_id, p)
                => Cardinality(RowsFor(tx.results, req.sid, p)) = 1

C11_Witness ==
    /\ pc = "commit"
    /\ \E r \in ResultsOf(tx.results, req.sid) :
          /\ r.result_id = req.first_id
          /\ r.hint_provided = IrrelevanceFeedback("llm")
    /\ \E r \in ResultsOf(tx.results, req.sid) :
          /\ r.result_id = req.first_id + 1
          /\ r.percentage > 0

GateFailed == cur.relevance.called /\ cur.relevance.reason = "Relevance check error"
NormalStages == {"structure", "answer", "logic", "score", "feedback", "insert", "loop"}

\* C12: when the classification capability raises on non-empty text,
\* check_relevance answers relevant with a reason noting the failed check, and
\* the problem goes through the normal stages to a composed, not a zeroed, result.
C12_GateFailsOpen ==
    /\ \A t \in TextKinds :
          ~Blank(t) =>
             /\ check_relevance(t, Failure).is_relevant
             /\ check_relevance(t, Failure).reason = "Relevance check error"
    /\ GateFailed
       => /\ cur.relevance.is_relevant
          /\ pc \in NormalStages
          /\ pc = "insert"
             => /\ cur.feedback_called
                /\ cur.percentage =
                      WaterfallScore(cur.is_proof, cur.ar.is_correct,
                                     cur.sr.logical_score).percentage
          /\ pc = "loop"
             => \E r \in RowsFor(tx.results, req.sid, cur.problem_id) :
                   /\ r.percentage = cur.percentage
                   /\ r.hint_provided = cur.hint_provided
                   /\ r.error_summary = cur.sr.error_summary

C12_Witness ==
    /\ GateFailed
    /\ pc = "loop"
    /\ \E r \in RowsFor(tx.results, req.sid, cur.problem_id) : r.percentage = 100

TextToCheck == PyOr(CurrentSubmission.ocr_text, PyOr(CurrentSubmission.student_solution, "empty"))
GateAnswered == cur.problem_id # NoProblem /\ pc \notin {"idle", "relevance"}

\* C13: on empty or whitespace-only text check_relevance answers not relevant,
\* reason empty submission, without calling the classification capability, and
\* the problem gets a zero-score result with no capability called for it.
C13_EmptyTextRejected ==
    /\ \A t \in TextKinds \cup {None}, reply \in RelevanceReplies :
          Blank(t) =>
             check_relevance(t, reply) =
                [is_relevant |-> FALSE, reason |-> "Empty submission", called |-> FALSE]
    /\ (GateAnswered /\ Blank(TextToCheck))
       => /\ cur.relevance.reason = "Empty submission"
          /\ ~cur.relevance.is_relevant
          /\ ~cur.relevance.called
          /\ ~cur.extracted /\ ~cur.ar.called /\ ~cur.sr.called /\ ~cur.feedback_called
          /\ pc \in {"irrelevant", "loop"}
          /\ pc = "loop"
             => \E r \in RowsFor(tx.results, req.sid, cur.problem_id) :
                   /\ r.percentage = 0
                   /\ r.final_score = 0
                   /\ r.error_summary = IrrelevanceSummary("Empty submission")

C13_Witness ==
    /\ GateAnswered
    /\ pc = "loop"
    /\ CurrentSubmission.ocr_text = "blank"
    /\ \E r \in RowsFor(tx.results, req.sid, cur.problem_id) : r.percentage = 0

\* the normal form of the fast path: whitespace removed, unicode minus as "-"
RECURSIVE Unified(_)
Unified(text) ==
    IF text = << >> THEN << >>
    ELSE IF Head(text) = Space THEN Unified(Tail(text))
    ELSE IF Head(text) = "U+2212" THEN <<"-">> \o Unified(Tail(text))
    ELSE <<Head(text)>> \o Unified(Tail(text))

\* C14: when the non-empty student answer and the reference answer are equal
\* after normalization, the verifier returns is_correct true, confidence 1.0 and
\* match_type exact without an external call.
C14_ExactFastPath ==
    (/\ va_out.set
     /\ va_in.student_answer # EmptyStr
     /\ va_in.correct_answer # EmptyStr
     /\ Unified(va_in.student_answer) # EmptyStr
     /\ Unified(va_in.student_answer) = Unified(va_in.correct_answer))
    => /\ ~va_out.result.raised
       /\ ~va_out.result.called
       /\ va_out.result.is_correct
       /\ va_out.result.confidence = 100
       /\ va_out.result.match_type = "exact"

\* C15: on an empty or whitespace-only student solution the Logical-Flow Verifier
\* returns logical_score 0, step_count 0, valid_steps 0, first_error_step_index 0
\* and error_summary "No solution steps found" without an external call.
C15_EmptySolutionVerdict ==
    (lf_out.set /\ Blank(lf_in.student_solution))
    => lf_out.result =
          [raised |-> FALSE, logical_score |-> 0, step_count |-> 0, valid_steps |-> 0,
           first_error_step_index |-> 0,
           error_summary |-> "No solution steps found", called |-> FALSE]

C15_Witness ==
    /\ lf_out.set
    /\ lf_in.student_solution = "blank"
    /\ lf_in.revision = "current"
    /\ lf_in.reply.ok
    /\ lf_in.reply.logical_score = 80
    /\ lf_out.result.logical_score = 0
    /\ ~lf_out.result.called

AfterStructure == {"answer", "logic", "score", "feedback", "insert", "loop"}

\* C16: when the structure-extraction capability fails, extract_solution_structure
\* returns the whole input as the only step, an empty answer and is_proof false,
\* and the problem goes on to verification, scoring and a persisted result.
C16_ExtractorFallback ==
    /\ \A t \in TextKinds :
          ~TooShort(t) =>
             LET structure == extract_solution_structure(t, Failure) IN
             /\ structure.student_steps = <<t>>
             /\ structure.student_answer = EmptyStr
             /\ ~structure.is_proof
    /\ cur.fallback
       => /\ pc \in AfterStructure
          /\ cur.structured_answer = EmptyStr
          /\ cur.structured_steps = CurrentSubmission.ocr_text
          /\ cur.is_proof = ProofMode(FALSE, OmniMath(cur.problem_id).problem)
          /\ pc \in {"feedback", "insert", "loop"}
             => cur.percentage =
                   WaterfallScore(cur.is_proof, cur.ar.is_correct,
                                  cur.sr.logical_score).percentage
          /\ pc = "loop"
             => \E r \in RowsFor(tx.results, req.sid, cur.problem_id) :
                   /\ r.percentage = cur.percentage
                   /\ r.logical_flow_score = cur.sr.logical_score

C16_Witness ==
    /\ cur.fallback
    /\ pc = "loop"
    /\ cur.sr.called
    /\ \E r \in RowsFor(tx.results, req.sid, cur.problem_id) : r.percentage = 60

\* C17: every problem that passes the Relevance Gate and is scored has the
\* Feedback Generator invoked before its result is persisted, and the persisted
\* result carries a feedback text.
C17_FeedbackAlwaysPresent ==
    /\ pc = "insert" => cur.feedback_called /\ cur.hint_provided # None
    /\ tx.open => \A r \in ResultsOf(tx.results, req.sid) : r.hint_provided # None

FeedbackFailed == cur.feedback_called /\ cur.hint_provided = "Error generating feedback"

\* C18: a failure of the feedback service does not raise: the generator returns a
\* marked fallback text, and the result is persisted with the percentage and the
\* verdicts the earlier stages gave.
C18_FeedbackFailureHarmless ==
    /\ (pc = "insert" /\ ~BlankQuery(OmniMath(cur.problem_id).problem,
                                     cur.structured_steps, cur.structured_answer))
       => cur.hint_provided # None
    /\ (pc \in {"insert", "loop"} /\ FeedbackFailed)
       => /\ cur.percentage =
                WaterfallScore(cur.is_proof, cur.ar.is_correct,
                               cur.sr.logical_score).percentage
          /\ cur.final_score = FinalScore(cur.percentage)
    /\ (pc = "loop" /\ FeedbackFailed)
       => \E r \in RowsFor(tx.results, req.sid, cur.problem_id) :
             /\ r.hint_provided = "Error generating feedback"
             /\ r.percentage = cur.percentage
             /\ r.final_score = cur.final_score
             /\ r.answer_is_correct = cur.ar.is_correct
             /\ r.answer_correctness = cur.ar.confidence
             /\ r.logical_flow_score = cur.sr.logical_score

C18_Witness ==
    /\ pc = "loop"
    /\ FeedbackFailed
    /\ \E r \in RowsFor(tx.results, req.sid, cur.problem_id) :
          r.percentage = 80 /\ r.answer_is_correct

SelectedHaveResults ==
    \A p \in Problems :
        Matches(req.sid, req.problem_id, p)
           => Cardinality(RowsFor(tx.results, req.sid, p)) = 1

BecomesGraded(s) == test_status[s] # "graded" /\ test_status'[s] = "graded"

GradedOnlyAtCommit ==
    \A s \in Submissions :
        BecomesGraded(s)
           => /\ pc = "commit"
              /\ pc' = "idle"
              /\ req.sid = s
              /\ response'.status = "completed"
              /\ \A p \in Problems :
                    Matches(s, req.problem_id, p)
                       => Cardinality(RowsFor(grading_results', s, p)) = 1

\* C19: within a grade the status is written only after the result of the last
\* problem has been inserted, and a submission becomes graded only by the commit
\* of a grade that completed all of its problems; until then it keeps the status
\* the upload gave it.
C19_GradedAfterLastResult ==
    /\ [](/\ (tx.open /\ pc # "commit") => tx.status = test_status
          /\ pc = "commit"
             => /\ todo = {}
                /\ SelectedHaveResults
                /\ tx.status[req.sid] = "graded")
    /\ [][GradedOnlyAtCommit]_vars

C19_Witness ==
    /\ pc = "commit"
    /\ test_status[req.sid] = "processing"
    /\ tx.status[req.sid] = "graded"
    /\ Cardinality(ResultsOf(tx.results, req.sid)) = 2

\* C20: a get_results served while a grade of the same submission is running
\* returns the complete result set that grade found, never the rows of the
\* unfinished rewrite; every set it returns has one row per problem, in order.
C20_ReaderSeesNoPartialRewrite ==
    /\ (results_read.set /\ results_read.during)
       => results_read.rows = results_read.prior
    /\ results_read.set
       => \A i, j \in 1..Len(results_read.rows) :
             i < j => results_read.rows[i].problem_id < results_read.rows[j].problem_id

C20_Witness ==
    /\ results_read.set
    /\ results_read.rewriting
    /\ Len(results_read.rows) = 1
    /\ pc = "loop"
    /\ todo # {}
    /\ Cardinality(ResultsOf(tx.results, req.sid)) = 1
    /\ ResultsOf(tx.results, req.sid) \cap grading_results = {}

Started == pc = "delete"
Finished ==
    /\ Completed
    /\ test_status[response.sid] = "graded"
    /\ \A p \in Problems :
          Matches(response.sid, response.problem_id, p)
             => Cardinality(RowsFor(grading_results, response.sid, p)) = 1

\* C21: a grade that found at least one problem submission, and in which only the
\* Relevance Gate, the Structure Extractor or the Feedback Generator fail,
\* eventually returns the completion message with one result per selected
\* problem and the submission marked graded; within the pass no problem is taken
\* twice.
C21_GradeTerminates ==
    /\ Started ~> Finished
    /\ [](tx.open
            => \A p \in todo : RowsFor(tx.results, req.sid, p) \cap
                                  {r \in tx.results : r.result_id >= req.first_id} = {})

C21_Witness ==
    /\ Finished
    /\ Cardinality(ResultsOf(grading_results, response.sid)) = 2
    /\ \E r \in grading_results : r.hint_provided = "Error generating feedback"
    /\ \E r \in grading_results : r.hint_provided = IrrelevanceFeedback("llm")

Persisted == grading_results \cup tx.results
TableValues == {0, 30, 40, 60, 75, 80, 100}

\* C22: every persisted GradingResult, the zero rows of irrelevant submissions
\* included, has a percentage among the values of the policy table and a
\* final_score of percentage / 100.
C22_PercentageAndFinalScore ==
    \A r \in Persisted :
        /\ r.percentage \in TableValues
        /\ r.final_score * 100 = r.percentage * Scale

C22_Witness ==
    /\ pc = "idle"
    /\ \E r \in grading_results : r.percentage = 60 /\ r.final_score = 60

FreshRows(p) ==
    {r \in RowsFor(tx.results, req.sid, p) : r.result_id >= req.first_id}

Stage ==
    IF cur.problem_id = NoProblem THEN "none"
    ELSE CASE pc = "relevance" -> "pending"
           [] pc \in {"structure", "irrelevant"} -> "relevance-checked"
           [] pc \in {"answer", "logic", "score"} -> "structured"
           [] pc \in {"feedback", "insert"} -> "scored"
           [] pc = "loop" -> "persisted"
           [] OTHER -> "none"

StageOrder ==
    {<<"none", "pending">>, <<"pending", "relevance-checked">>,
     <<"relevance-checked", "structured">>, <<"relevance-checked", "persisted">>,
     <<"structured", "scored">>, <<"scored", "persisted">>,
     <<"persisted", "pending">>}
    \cup {<<st, "none">> : st \in {"pending", "relevance-checked", "structured",
                                   "scored", "persisted"}}

StageFacts ==
    /\ pc = "structure" => cur.relevance # NoRelevance /\ cur.relevance.is_relevant
    /\ pc = "irrelevant"
       => /\ cur.relevance # NoRelevance /\ ~cur.relevance.is_relevant
          /\ cur.structured_steps = None /\ cur.ar = NoAnswer /\ cur.sr = NoLogic
    /\ pc \in {"answer", "logic"}
       => cur.relevance.is_relevant /\ cur.structured_steps # None
    /\ pc = "logic" => cur.ar # NoAnswer
    /\ pc = "score"
       => cur.structured_steps # None /\ cur.ar # NoAnswer /\ cur.sr # NoLogic
    /\ Stage \in {"pending", "relevance-checked", "structured", "scored"}
       => FreshRows(cur.problem_id) = {}
    /\ Stage = "persisted"
       => Cardinality(FreshRows(cur.problem_id)) = 1 /\ cur.problem_id \notin todo
    /\ tx.open => \A p \in Problems : Cardinality(FreshRows(p)) <= 1

StageStep ==
    /\ Stage' # Stage => <<Stage, Stage'>> \in StageOrder
    /\ (Stage' = "persisted" /\ Stage # "persisted")
       => /\ cur' = cur
          /\ Stage = "relevance-checked" <=> ~cur.relevance.is_relevant
          /\ Stage = "scored" <=> cur.relevance.is_relevant
    /\ (Stage' = "pending" /\ tx.open)
       => FreshRows(cur'.problem_id) = {}

\* C23: within a grading pass a problem goes pending, relevance-checked,
\* structured, scored, persisted in that order: extraction starts only after
\* the relevance verdict, the verifiers only with the structure at hand, the
\* score only with both verdicts, and the one row of the problem is written
\* last, from scored or straight from a failed relevance check.
C23_StageOrder == []StageFacts /\ [][StageStep]_vars

C23_Witness ==
    /\ Stage = "persisted"
    /\ cur.feedback_called
    /\ \E r \in tx.results :
          /\ r.result_id >= req.first_id
          /\ r.problem_id # cur.problem_id
          /\ r.error_summary \in {IrrelevanceSummary("Empty submission"),
                                  IrrelevanceSummary("llm")}

SameSpelling ==
    {{"prove", "Prove", "PROVE"}, {"show", "Show"}, {"that", "THAT"},
     {"demonstrate", "Demonstrate"}}
SameIgnoringCase(a, b) ==
    /\ Len(a) = Len(b)
    /\ \A i \in 1..Len(a) :
          a[i] = b[i] \/ \E v \in SameSpelling : a[i] \in v /\ b[i] \in v
HoldsKeyword(text) ==
    \E k \in {<<"prove">>, <<"show", " ", "that">>, <<"demonstrate">>} :
       \E i, j \in 1..Len(text) : SameIgnoringCase(SubSeq(text, i, j), k)

\* C24: a problem is graded in proof mode exactly when the Structure Extractor
\* marked it is_proof or the problem text holds "prove", "show that" or
\* "demonstrate" in any capitalisation; the heuristic never turns a proof into
\* a calculation.
C24_ProofModeOverride ==
    pm_out.set
       => /\ pm_out.is_proof <=> (pm_in.is_proof \/ HoldsKeyword(pm_in.problem_text))
          /\ pm_in.is_proof => pm_out.is_proof

C24_Witness ==
    /\ pm_out.set
    /\ ~pm_in.is_proof
    /\ pm_in.problem_text = <<"Show", " ", "THAT">>
    /\ pm_out.is_proof

\* C25: the answer_is_correct flag of a persisted result is the answer-correct
\* verdict score composition produced for the problem, the value handed to the
\* Feedback Generator.
C25_StoredVerdictIsComposed ==
    (pc = "loop" /\ cur.feedback_called)
       => \A r \in FreshRows(cur.problem_id) :
             /\ r.answer_is_correct = cur.answer_correct
             /\ r.answer_is_correct = cur.feedback_is_correct

ProofGraded == cur.problem_id # NoProblem /\ cur.is_proof

\* C26: for a problem graded in proof mode the Answer Verifier is not invoked;
\* the answer verdict is the proof bypass, correct with confidence 1.0, the
\* stored confidence is 1.0, and the percentage is a function of the
\* logical_score alone.
C26_ProofBypass ==
    /\ (ProofGraded /\ pc \in {"logic", "score", "feedback", "insert", "loop"})
       => /\ ~cur.ar.called
          /\ ~cur.ar.failed
          /\ cur.ar.is_correct
          /\ cur.ar.confidence = 100
          /\ cur.ar.match_type = "proof_bypass"
    /\ (ProofGraded /\ pc \in {"feedback", "insert", "loop"})
       => \A verdict \in BOOLEAN :
             cur.percentage = PolicyTable(TRUE, verdict, cur.sr.logical_score)
    /\ (ProofGraded /\ pc = "loop")
       => \A r \in FreshRows(cur.problem_id) :
             /\ r.answer_correctness = 100
             /\ r.percentage = cur.percentage

C26_Witness ==
    /\ ProofGraded
    /\ pc = "loop"
    /\ cur.structured_answer # OmniMath(cur.problem_id).answer
    /\ \E r \in FreshRows(cur.problem_id) :
          r.answer_correctness = 100 /\ r.percentage = 75

\* C27: in every state uploads and grades, completed or failed, can reach, a
\* submission whose status is graded has at least one GradingResult.
C27_GradedHasResult ==
    /\ \A s \in Submissions :
          test_status[s] = "graded" => ResultsOf(grading_results, s) # {}
    /\ pc = "commit" => ResultsOf(tx.results, req.sid) # {}

C27_Witness ==
    /\ pc = "idle"
    /\ response.op = "grade"
    /\ response.status = "error"
    /\ \E s \in Submissions :
          test_status[s] = "graded" /\ ResultsOf(grading_results, s) # {}

Others == Submissions \ {req.sid}

FrameFacts ==
    tx.open
       => \A s \in Others :
             /\ ResultsOf(tx.results, s) = ResultsOf(grading_results, s)
             /\ tx.status[s] = test_status[s]

FrameStep ==
    /\ problem_submissions' # problem_submissions
       => pc = "idle" /\ response'.op = "submit_solution"
    /\ (pc = "idle" /\ response'.op = "grade")
       => /\ grading_results' = grading_results
          /\ test_status' = test_status
          /\ before' = Tables
    /\ (pc # "idle" /\ pc' # "idle")
       => /\ grading_results' = grading_results
          /\ test_status' = test_status
          /\ before' = before
    /\ (pc # "idle" /\ pc' = "idle")
       => \A s \in Others :
             /\ ResultsOf(grading_results', s) = ResultsOf(before.results, s)
             /\ test_status'[s] = before.status[s]

\* C28: a grade invocation for submission S, completing or failing, leaves the
\* GradingResults and the status of every other submission and every
\* ProblemSubmission, S's own included, as they were before it.
C28_GradeFrame == []FrameFacts /\ [][FrameStep]_vars

C28_Witness ==
    /\ Completed
    /\ response.sid = 2
    /\ ResultsOf(grading_results, 2) # {}
    /\ test_status[2] = "graded"
    /\ test_status[1] = "graded"
    /\ \E r \in ResultsOf(grading_results, 1) : r.result_id < response.first_id

IsUpload == pc = "idle" /\ pc' = "idle" /\ results_read' = results_read
                /\ response'.op = "submit_solution"
IsRead == results_read' # results_read

ReuploadStep ==
    /\ IsUpload
       => /\ grading_results' = grading_results
          /\ \A s \in Submissions :
                test_status[s] = "graded" => test_status'[s] \in {"graded", "processing"}
          /\ \E s \in Submissions :
                /\ test_status'[s] = "processing"
                /\ \A o \in Submissions \ {s} : test_status'[o] = test_status[o]
    /\ IsRead
       => /\ results_read'.rows = ReadRows(grading_results, results_read'.sid, 1)
          /\ results_read'.status = test_status[results_read'.sid]
          /\ grading_results' = grading_results
          /\ test_status' = test_status
    /\ \A s \in Submissions :
          ResultsOf(grading_results', s) # ResultsOf(grading_results, s)
             => /\ pc = "commit"
                /\ req.sid = s
                /\ response'.status = "completed"
                /\ test_status'[s] = "graded"

\* C29: an upload to a graded submission sets its status to processing and
\* leaves its GradingResults as they are; get_results returns the committed
\* results whatever the status, and they change only when a grade of the
\* submission completes.
C29_ReuploadKeepsResults == [][ReuploadStep]_vars

C29_Witness ==
    /\ pc = "idle"
    /\ response.op = "submit_solution"
    /\ test_status[1] = "processing"
    /\ results_read.set
    /\ results_read.sid = 1
    /\ results_read.status = "processing"
    /\ Len(results_read.rows) = 1
    /\ results_read.rows = ReadRows(grading_results, 1, 1)

FallbackCalculation == cur.problem_id # NoProblem /\ cur.fallback /\ ~cur.is_proof

\* C30: when structure extraction falls back on a problem that is not in proof
\* mode, the extracted answer is empty, the Answer Verifier answers incorrect
\* with confidence 0 without an external call, and the percentage is 0, 30 or
\* 60, never 80 or 100, whatever the student wrote.
C30_FallbackCapsScore ==
    /\ FallbackCalculation => cur.structured_answer = EmptyStr
    /\ (FallbackCalculation /\ pc \in {"logic", "score", "feedback", "insert", "loop"})
       => /\ ~cur.ar.called
          /\ ~cur.ar.failed
          /\ ~cur.ar.is_correct
          /\ cur.ar.confidence = 0
    /\ (FallbackCalculation /\ pc \in {"feedback", "insert", "loop"})
       => cur.percentage \in {0, 30, 60}
    /\ (FallbackCalculation /\ pc = "loop")
       => \A r \in FreshRows(cur.problem_id) :
             /\ r.percentage \in {0, 30, 60}
             /\ ~r.answer_is_correct
             /\ r.answer_correctness = 0

C30_Witness ==
    /\ FallbackCalculation
    /\ pc = "loop"
    /\ CurrentSubmission.student_answer = OmniMath(cur.problem_id).answer
    /\ \E r \in FreshRows(cur.problem_id) : r.percentage = 60

====
